---- MODULE Spec2Model ----
(***************************************************************************)
(* Model of the request helpers of the AI Foundry workshop notebooks:     *)
(*   plan_trip_with_reasoning  (DeepSeek-R1 notebook, reasoning split)     *)
(*   chat_with_template        (chat-completion notebook, str.format)      *)
(*   chat_with_fitness_assistant, solve_technical_problem                  *)
(*   retrieve_tips             (multi-agent RAG notebook)                  *)
(* Texts are sequences of one-character strings, so that find, slicing,    *)
(* strip and format are computed position by position as Python does.      *)
(***************************************************************************)
EXTENDS Integers, Sequences, FiniteSets, TLC

VARIABLES pc, fn, query, show_thinking, response, messages, result, printed,
          user_input, user_name, goal,
          template, bindings, rendered, calls, relevant,
          project_client, clients, fault, rounds, report, file

vars == <<pc, fn, query, show_thinking, response, messages, result, printed,
          user_input, user_name, goal,
          template, bindings, rendered, calls, relevant,
          project_client, clients, fault, rounds, report, file>>

\* The variables only the later specifications use.
\* The variables of the notebook sessions: the global project_client, the
\* clients open in a with statement, the step that fails in the current
\* call, the calls made so far, what the calling cell printed, and
\* temp_image.png.
later == <<project_client, clients, fault, rounds, report, file>>

others == <<template, bindings, rendered, calls, relevant,
            project_client, clients, fault, rounds, report, file>>

(* ------------------------------ bounds -------------------------------- *)

\* Largest number of pieces a transport response is assembled from.
MaxPieces == 4

\* Largest number of pieces a fill-in value (user_name, goal) is built from.
MaxValPieces == 2

(* ------------------------- Python string helpers ---------------------- *)

Min(S) == CHOOSE x \in S : \A y \in S : x <= y

\* Characters str.strip() removes when called without arguments.
Whitespace == {" ", "\n", "\t"}

\* str.find(sub): lowest 0-based index at which sub occurs in s, -1 if none.
Find(s, sub) ==
    LET hits == {i \in 0..(Len(s) - Len(sub)) :
                    SubSeq(s, i + 1, i + Len(sub)) = sub}
    IN  IF hits = {} THEN -1 ELSE Min(hits)

\* The operator `sub in s` on strings.
In(sub, s) == Find(s, sub) # -1

\* A slice bound as Python normalises it: negative counts from the end,
\* then the bound is clamped to 0..len.
SliceBound(i, n) ==
    IF i < 0 THEN (IF i + n < 0 THEN 0 ELSE i + n)
             ELSE (IF i > n THEN n ELSE i)

\* s[i:j] with 0-based i (inclusive) and j (exclusive); empty when i >= j.
Slice(s, i, j) ==
    SubSeq(s, SliceBound(i, Len(s)) + 1, SliceBound(j, Len(s)))

\* s[i:]
SliceFrom(s, i) == SubSeq(s, SliceBound(i, Len(s)) + 1, Len(s))

RECURSIVE LStrip(_)
LStrip(s) ==
    IF s # <<>> /\ Head(s) \in Whitespace THEN LStrip(Tail(s)) ELSE s

RECURSIVE RStrip(_)
RStrip(s) ==
    IF s # <<>> /\ s[Len(s)] \in Whitespace
    THEN RStrip(SubSeq(s, 1, Len(s) - 1)) ELSE s

\* str.strip()
Strip(s) == RStrip(LStrip(s))

RECURSIVE Flatten(_)
Flatten(ps) == IF ps = <<>> THEN <<>> ELSE Head(ps) \o Flatten(Tail(ps))

(* ------------------------ plan_trip_with_reasoning -------------------- *)

OpenTag == <<"<", "t", "h", "i", "n", "k", "i", "n", "g", ">">>

CloseTag == <<"<", "/", "t", "h", "i", "n", "k", "i", "n", "g", ">">>

TravelSystemText ==
    <<"Y", "o", "u", " ", "a", "r", "e", " ", "a", " ", "t", "r", "a", "v",
      "e", "l", " ", "e", "x", "p", "e", "r", "t", ".", " ", "P", "r", "o",
      "v", "i", "d", "e", " ", "d", "e", "t", "a", "i", "l", "e", "d", " ",
      "p", "l", "a", "n", "s", " ", "w", "i", "t", "h", " ", "r", "a", "t",
      "i", "o", "n", "a", "l", "e", ".">>

QuerySuffix ==
    <<" ", "I", "n", "c", "l", "u", "d", "e", " ", "h", "i", "d", "d", "e",
      "n", " ", "g", "e", "m", "s", " ", "a", "n", "d", " ", "s", "a", "f",
      "e", "t", "y", " ", "c", "o", "n", "s", "i", "d", "e", "r", "a", "t",
      "i", "o", "n", "s", ".">>

\* The message list handed to chat.completions.create.
TravelMessages(q) ==
    <<[role |-> "system", content |-> TravelSystemText],
      [role |-> "user", content |-> q \o QuerySuffix]>>

\* thinking_start = content.find("<thinking>") + 10
thinking_start(content) == Find(content, OpenTag) + 10

\* thinking_end = content.find("</thinking>")
thinking_end(content) == Find(content, CloseTag)

\* thinking = content[thinking_start:thinking_end].strip()
thinking(content) ==
    Strip(Slice(content, thinking_start(content), thinking_end(content)))

\* final_answer = content[thinking_end + 12:].strip()
final_answer(content) == Strip(SliceFrom(content, thinking_end(content) + 12))

\* The guard without its close-tag test.
ExtractGuard_OpenOnly(content, st) == st /\ In(OpenTag, content)

\* The guard without its show_thinking test.
ExtractGuard_IgnoresFlag(content, st) ==
    In(OpenTag, content) /\ In(CloseTag, content)

\* The guard of the extraction branch.
ExtractGuard(content, st) ==
    st /\ In(OpenTag, content) /\ In(CloseTag, content)

\* The plain branch returning content.strip() instead of content.
SplitContent_StripsPlain(content, st) ==
    IF ExtractGuard(content, st)
    THEN [kind |-> "dict",
          value |-> [thinking |-> thinking(content),
                     answer |-> final_answer(content),
                     full_response |-> content]]
    ELSE [kind |-> "str", value |-> Strip(content)]

\* The dict keeping the trimmed content as full_response.
SplitContent_TrimmedFull(content, st) ==
    IF ExtractGuard(content, st)
    THEN [kind |-> "dict",
          value |-> [thinking |-> thinking(content),
                     answer |-> final_answer(content),
                     full_response |-> Strip(content)]]
    ELSE [kind |-> "str", value |-> content]

\* What the function returns once the transport has answered with content:
\* a dict on the extraction branch, the content string otherwise.
SplitContent(content, st) ==
    IF ExtractGuard(content, st)
    THEN [kind |-> "dict",
          value |-> [thinking |-> thinking(content),
                     answer |-> final_answer(content),
                     full_response |-> content]]
    ELSE [kind |-> "str", value |-> content]

\* The return value None of the except branch.
NoneResult == [kind |-> "None", value |-> <<>>]

\* A call that ended by raising to its caller.
Raised(e) == [kind |-> "raise", value |-> e]

\* No call has returned yet.
Pending == [kind |-> "pending", value |-> <<>>]

(* --------------------------- chat_with_template ----------------------- *)

NameField == <<"n", "a", "m", "e">>

GoalField == <<"g", "o", "a", "l">>

system_template ==
    <<"Y", "o", "u", " ", "a", "r", "e", " ", "F", "i", "t", "C", "h", "a",
      "t", " ", "G", "P", "T", ",", " ", "a", "n", " ", "A", "I", " ", "p",
      "e", "r", "s", "o", "n", "a", "l", " ", "t", "r", "a", "i", "n", "e",
      "r", " ", "f", "o", "r", " ", "{", "n", "a", "m", "e", "}", ".",
      "\n", "Y", "o", "u", "r", " ", "u", "s", "e", "r", " ", "w", "a",
      "n", "t", "s", " ", "t", "o", " ", "a", "c", "h", "i", "e", "v", "e",
      ":", " ", "{", "g", "o", "a", "l", "}", ".", "\n", "R", "e", "m",
      "i", "n", "d", " ", "t", "h", "e", "m", " ", "y", "o", "u", "'", "r",
      "e", " ", "n", "o", "t", " ", "a", " ", "m", "e", "d", "i", "c", "a",
      "l", " ", "p", "r", "o", "f", "e", "s", "s", "i", "o", "n", "a", "l",
      ".", " ", "O", "f", "f", "e", "r", " ", "f", "r", "i", "e", "n", "d",
      "l", "y", " ", "a", "d", "v", "i", "c", "e", ".">>

\* Outcomes of str.format: the text, or the exception it raises (text then
\* holds the offending field name).
FormatOk(text) == [err |-> "none", text |-> text]
FormatErr(e, name) == [err |-> e, text |-> name]

\* 1-based position of the first "}" at or after i, 0 if there is none.
NextRBrace(tpl, i) ==
    LET hits == {j \in i..Len(tpl) : tpl[j] = "}"}
    IN  IF hits = {} THEN 0 ELSE Min(hits)

\* 1-based position of the first brace at or after i, Len(tpl) + 1 if none.
NextBrace(tpl, i) ==
    LET hits == {j \in i..Len(tpl) : tpl[j] \in {"{", "}"}}
    IN  IF hits = {} THEN Len(tpl) + 1 ELSE Min(hits)

\* x followed by the rendering of the rest, unless the rest raised.
Emit(x, rest) ==
    IF rest.err = "none" THEN FormatOk(x \o rest.text) ELSE rest

\* str.format over plain named fields, scanning tpl left to right from the
\* 1-based position i: a run of literal text up to the next brace is copied,
\* "{{" and "}}" are escapes, "{name}" is replaced by
\* the keyword argument of that name (inserted as is, never scanned again),
\* an unknown name raises KeyError, an unbalanced brace ValueError.
RECURSIVE FormatFrom(_, _, _)
FormatFrom(tpl, kwargs, i) ==
    IF i > Len(tpl) THEN FormatOk(<<>>)
    ELSE IF tpl[i] = "{"
    THEN IF i < Len(tpl) /\ tpl[i + 1] = "{"
         THEN Emit(<<"{">>, FormatFrom(tpl, kwargs, i + 2))
         ELSE LET j == NextRBrace(tpl, i + 1)
                  name == SubSeq(tpl, i + 1, j - 1)
              IN  IF j = 0 THEN FormatErr("ValueError", <<>>)
                  ELSE IF name = <<>> THEN FormatErr("IndexError", <<>>)
                  ELSE IF name \notin DOMAIN kwargs
                  THEN FormatErr("KeyError", name)
                  ELSE Emit(kwargs[name], FormatFrom(tpl, kwargs, j + 1))
    ELSE IF tpl[i] = "}"
    THEN IF i < Len(tpl) /\ tpl[i + 1] = "}"
         THEN Emit(<<"}">>, FormatFrom(tpl, kwargs, i + 2))
         ELSE FormatErr("ValueError", <<>>)
    ELSE LET j == NextBrace(tpl, i)
         IN  Emit(SubSeq(tpl, i, j - 1), FormatFrom(tpl, kwargs, j))

Format(tpl, kwargs) == FormatFrom(tpl, kwargs, 1)

\* system_template.format(name=goal, goal=user_name): the two keyword
\* arguments exchanged.
system_prompt_Swapped(un, g) ==
    Format(system_template, (NameField :> g) @@ (GoalField :> un))

\* system_prompt = system_template.format(name=user_name, goal=goal)
system_prompt(un, g) ==
    Format(system_template, (NameField :> un) @@ (GoalField :> g))

\* messages=[system_msg, user_msg]
TemplateMessages(sp, ui) ==
    <<[role |-> "system", content |-> sp],
      [role |-> "user", content |-> ui]>>

(* ---------------------------- input domains --------------------------- *)

\* Pieces a transport response is assembled from.
Pieces == {OpenTag, CloseTag, <<" ">>, <<"a">>, <<"b">>}

PieceSeqs(n) == UNION {[1..k -> Pieces] : k \in 0..n}

RawResponses == {Flatten(ps) : ps \in PieceSeqs(MaxPieces)}

\* What the transport does with the one request of a call.
Responses ==
    {[ok |-> TRUE, content |-> c] : c \in RawResponses}
        \cup {[ok |-> FALSE, content |-> <<>>]}

Queries == {<<>>, <<"K", "y", "o", "t", "o">>}

\* Pieces a fill-in value is assembled from.
ValPieces == {<<"J">>, <<"{", "g", "o", "a", "l", "}">>, <<"{">>, <<"}">>}

Values ==
    {Flatten(ps) : ps \in UNION {[1..k -> ValPieces] : k \in 0..MaxValPieces}}

UserInputs == {<<>>, <<"h", "i">>}

\* Transport behaviours offered to chat_with_template.
TemplateResponses ==
    {[ok |-> TRUE, content |-> <<"o", "k">>], [ok |-> FALSE, content |-> <<>>]}

(* ------------------------------- actions ------------------------------ *)

\* The variables of the notebook sessions at rest.
LaterIdle ==
    /\ project_client = "unused"
    /\ clients = <<>>
    /\ fault = "none"
    /\ rounds = 0
    /\ report = <<>>
    /\ file = "absent"

\* The variables of the other specifications at rest.
OthersIdle ==
    /\ template = <<>>
    /\ bindings = <<>>
    /\ rendered = <<>>
    /\ calls = <<>>
    /\ relevant = <<>>
    /\ LaterIdle

Init ==
    /\ pc = "call"
    /\ fn = "plan_trip_with_reasoning"
    /\ query \in Queries
    /\ show_thinking \in BOOLEAN
    /\ response \in Responses
    /\ messages = <<>>
    /\ result = Pending
    /\ printed = <<>>
    /\ user_input = <<>>
    /\ user_name = <<>>
    /\ goal = <<>>
    /\ OthersIdle

\* One call plan_trip_with_reasoning(query, show_thinking): build the
\* messages, one chat.completions.create inside the client context, then
\* the split; any exception is printed and turned into None.
PlanTripWithReasoning ==
    /\ pc = "call"
    /\ fn = "plan_trip_with_reasoning"
    /\ pc' = "done"
    /\ messages' = Append(messages, TravelMessages(query))
    /\ IF response.ok
       THEN /\ result' = SplitContent(response.content, show_thinking)
            /\ printed' = printed
       ELSE /\ result' = NoneResult
            /\ printed' = printed \o <<"Error calling API", "Make sure the model is properly deployed">>
    /\ UNCHANGED <<fn, query, show_thinking, response, user_input, user_name,
                   goal, others>>

Next == PlanTripWithReasoning

Spec == Init /\ [][Next]_vars

RenderInit ==
    /\ pc = "call"
    /\ fn = "chat_with_template"
    /\ user_input \in UserInputs
    /\ user_name \in Values
    /\ goal \in Values
    /\ response \in TemplateResponses
    /\ query = <<>>
    /\ show_thinking = FALSE
    /\ messages = <<>>
    /\ result = Pending
    /\ printed = <<>>
    /\ OthersIdle

\* One call chat_with_template(user_input, user_name, goal): fill in the
\* template, then one chat.completions.create inside the client context;
\* nothing is caught, so an exception of format or of the transport reaches
\* the caller.
ChatWithTemplate ==
    /\ pc = "call"
    /\ fn = "chat_with_template"
    /\ pc' = "done"
    /\ LET sp == system_prompt(user_name, goal)
       IN  IF sp.err # "none"
           THEN /\ messages' = messages
                /\ result' = Raised(sp.err)
           ELSE /\ messages' =
                     Append(messages, TemplateMessages(sp.text, user_input))
                /\ result' = IF response.ok
                             THEN [kind |-> "str", value |-> response.content]
                             ELSE Raised("TransportError")
    /\ UNCHANGED <<fn, query, show_thinking, response, printed,
                   user_input, user_name, goal, others>>

RenderNext == ChatWithTemplate

RenderSpec == RenderInit /\ [][RenderNext]_vars

(* ------------- reading a returned value as a split result ------------- *)

\* The call has returned a value built from a transport response.
Returned == pc = "done" /\ fn = "plan_trip_with_reasoning"
                /\ result.kind \in {"dict", "str"}

\* A returned string carries no reasoning; it is answer and full text.
HasReasoning(r) == r.kind = "dict"
Reasoning(r) == r.value.thinking
Answer(r) == IF r.kind = "dict" THEN r.value.answer ELSE r.value
FullText(r) == IF r.kind = "dict" THEN r.value.full_response ELSE r.value

\* sub occurs in s at 0-based position i.
Occurs(s, sub, i) ==
    /\ i >= 0
    /\ i + Len(sub) <= Len(s)
    /\ \A k \in 1..Len(sub) : s[i + k] = sub[k]

\* Least position >= from at which sub occurs in s, -1 if there is none.
FirstAt(s, sub, from) ==
    IF \E i \in from..Len(s) : Occurs(s, sub, i)
    THEN CHOOSE i \in from..Len(s) :
            /\ Occurs(s, sub, i)
            /\ \A j \in from..(i - 1) : ~Occurs(s, sub, j)
    ELSE -1

Count(s, sub) == Cardinality({i \in 0..Len(s) : Occurs(s, sub, i)})

\* Position just past the first open tag (only used when there is one).
OpenEnd(s) == FirstAt(s, OpenTag, 0) + Len(OpenTag)

\* Position of the first close tag at or after the end of the open tag.
CloseAfter(s) == FirstAt(s, CloseTag, OpenEnd(s))

\* Text between positions i (inclusive) and j (exclusive), 0-based.
Between(s, i, j) == SubSeq(s, i + 1, j)

NonWs(s) == SelectSeq(s, LAMBDA ch : ch \notin Whitespace)

(* ------------------------------- C1 ----------------------------------- *)

\* C1: when the open tag is followed later by the close tag, splitting with
\* show_thinking=True yields reasoning = the trimmed text strictly between
\* the end of the open tag and the start of the close tag, and answer = the
\* trimmed text starting right after the last character of the close tag.
C1_SplitBetweenAndAfter ==
    (Returned /\ show_thinking
        /\ FirstAt(response.content, OpenTag, 0) # -1
        /\ CloseAfter(response.content) # -1)
    => LET c == response.content
       IN  /\ HasReasoning(result)
           /\ Reasoning(result) = Strip(Between(c, OpenEnd(c), CloseAfter(c)))
           /\ Answer(result) =
                Strip(Between(c, CloseAfter(c) + Len(CloseTag), Len(c)))

(* ------------------------------- C2 ----------------------------------- *)

\* C2: a raw response without an open tag comes back with no reasoning, the
\* answer being the raw response character for character, and fullText the
\* same raw response.
C2_NoOpenTagPlainAnswer ==
    (Returned /\ FirstAt(response.content, OpenTag, 0) = -1)
    => /\ ~HasReasoning(result)
       /\ Answer(result) = response.content
       /\ FullText(result) = response.content

\* A response with a close tag and surrounding blanks but no open tag was
\* returned under show_thinking=True.
C2_Witness ==
    /\ Returned /\ show_thinking
    /\ FirstAt(response.content, OpenTag, 0) = -1
    /\ FirstAt(response.content, CloseTag, 0) # -1
    /\ Head(response.content) \in Whitespace
    /\ result.value = response.content

(* ------------------------------- C3 ----------------------------------- *)

\* C3: in every split result, whatever the placement or absence of tags,
\* fullText (full_response) is the raw transport text, unmodified.
C3_FullTextIsRaw == Returned => FullText(result) = response.content

\* A structured result for a response that starts and ends with blanks and
\* has its close tag before its open tag.
C3_Witness ==
    /\ Returned /\ result.kind = "dict"
    /\ Head(response.content) \in Whitespace
    /\ response.content[Len(response.content)] \in Whitespace
    /\ FirstAt(response.content, CloseTag, 0)
         < FirstAt(response.content, OpenTag, 0)

(* ------------------------------- C4 ----------------------------------- *)

\* C4: when the delimiters are present (here: exactly one open and one close
\* tag, in either order) the returned answer contains neither marker.
C4_AnswerExcludesMarkers ==
    (Returned /\ show_thinking
        /\ Count(response.content, OpenTag) = 1
        /\ Count(response.content, CloseTag) = 1)
    => /\ FirstAt(Answer(result), OpenTag, 0) = -1
       /\ FirstAt(Answer(result), CloseTag, 0) = -1

(* ------------------------------- C5 ----------------------------------- *)

\* C5 (as claimed): an open tag with no close tag after it gives reasoning =
\* the trimmed remainder after the open tag, an empty answer and fullText =
\* raw.
C5_UnterminatedIsReasoning ==
    (Returned /\ show_thinking
        /\ FirstAt(response.content, OpenTag, 0) # -1
        /\ CloseAfter(response.content) = -1)
    => LET c == response.content
       IN  /\ HasReasoning(result)
           /\ Reasoning(result) = Strip(Between(c, OpenEnd(c), Len(c)))
           /\ Answer(result) = <<>>
           /\ FullText(result) = c

\* C5 (amended): an open tag with no close tag anywhere comes back as the raw
\* response itself, a plain untagged answer; when the only close tags precede
\* the open tag the result is structured, with empty reasoning, fullText =
\* raw and answer = the trimmed text from 12 characters past the start of the
\* first close tag.
C5_UnterminatedIsPlain ==
    (Returned /\ show_thinking
        /\ FirstAt(response.content, OpenTag, 0) # -1
        /\ CloseAfter(response.content) = -1)
    => LET c == response.content
           early == FirstAt(c, CloseTag, 0)
       IN  IF early = -1
           THEN /\ ~HasReasoning(result)
                /\ Answer(result) = c
                /\ FullText(result) = c
           ELSE /\ HasReasoning(result)
                /\ Reasoning(result) = <<>>
                /\ FullText(result) = c
                /\ Answer(result) =
                     Strip(Between(c, IF early + 12 > Len(c) THEN Len(c)
                                      ELSE early + 12, Len(c)))

\* An unterminated open tag followed by text and a trailing blank came back
\* as the plain string.
C5_Witness ==
    /\ Returned /\ show_thinking
    /\ FirstAt(response.content, OpenTag, 0) # -1
    /\ FirstAt(response.content, CloseTag, 0) = -1
    /\ Len(response.content) > Len(OpenTag) + 1
    /\ response.content[Len(response.content)] \in Whitespace
    /\ result = [kind |-> "str", value |-> response.content]

(* ------------------------------- C6 ----------------------------------- *)

\* C6: the close tag used is the first one at or after the end of the first
\* open tag, so the reasoning never starts after the index where it ends.
C6_CloseTagAfterOpenTag ==
    (Returned /\ result.kind = "dict")
    => /\ thinking_end(response.content) = CloseAfter(response.content)
       /\ thinking_start(response.content) <= thinking_end(response.content)

(* ------------------------------- C7 ----------------------------------- *)

\* C7: with repeated tags (first open tag before first close tag) the first
\* occurrence of each is used, and all text after the first close tag, later
\* tag-like tokens included, is the answer.
C7_FirstOccurrences ==
    (Returned /\ result.kind = "dict"
        /\ Count(response.content, OpenTag)
             + Count(response.content, CloseTag) > 2
        /\ FirstAt(response.content, OpenTag, 0)
             < FirstAt(response.content, CloseTag, 0))
    => LET c == response.content
           o == FirstAt(c, OpenTag, 0)
           e == FirstAt(c, CloseTag, 0)
       IN  /\ Reasoning(result) = Strip(Between(c, o + Len(OpenTag), e))
           /\ Answer(result) = Strip(Between(c, e + Len(CloseTag), Len(c)))

(* ------------------------------- C8 ----------------------------------- *)

\* Exactly one open tag, then exactly one close tag, nothing but blanks
\* before the open tag.
WellFormed(s) ==
    /\ Count(s, OpenTag) = 1
    /\ Count(s, CloseTag) = 1
    /\ FirstAt(s, OpenTag, 0) < FirstAt(s, CloseTag, 0)
    /\ NonWs(Between(s, 0, FirstAt(s, OpenTag, 0))) = <<>>

\* C8: for well-formed tags, reasoning followed by answer carries every
\* non-blank character of the raw text outside the two tags, in order.
C8_RoundTrip ==
    (Returned /\ show_thinking /\ WellFormed(response.content))
    => LET c == response.content
           o == FirstAt(c, OpenTag, 0)
           e == FirstAt(c, CloseTag, 0)
       IN  /\ HasReasoning(result)
           /\ NonWs(Reasoning(result)) \o NonWs(Answer(result))
                = NonWs(Between(c, o + Len(OpenTag), e))
                    \o NonWs(Between(c, e + Len(CloseTag), Len(c)))

(* ------------------------------- C10 ---------------------------------- *)

\* The template cut at its two placeholders, found by substring search.
NameAt == FirstAt(system_template, <<"{">> \o NameField \o <<"}">>, 0)
GoalAt == FirstAt(system_template, <<"{">> \o GoalField \o <<"}">>, 0)

\* The literal text of the template around the placeholders, in order, with
\* the bound values in the placeholders' places.
ExpectedPrompt(un, g) ==
    Between(system_template, 0, NameAt) \o un
        \o Between(system_template, NameAt + Len(NameField) + 2, GoalAt) \o g
        \o Between(system_template, GoalAt + Len(GoalField) + 2,
                   Len(system_template))

\* C10: with all placeholders bound, rendering gives the template with each
\* placeholder replaced by its bound value and every literal character
\* outside the placeholders kept, in order; the rendered text is the system
\* message of the request.
C10_RenderSubstitutes ==
    (pc = "done" /\ fn = "chat_with_template")
    => /\ 0 <= NameAt /\ NameAt < GoalAt
       /\ Len(messages) = 1
       /\ messages[1][1].role = "system"
       /\ messages[1][1].content = ExpectedPrompt(user_name, goal)

\* A call whose user_name itself holds placeholder text and differs from
\* goal has sent its request.
C10_Witness ==
    /\ pc = "done" /\ fn = "chat_with_template"
    /\ FirstAt(user_name, <<"{">> \o GoalField \o <<"}">>, 0) # -1
    /\ goal # <<>> /\ goal # user_name
    /\ Len(messages) = 1
    /\ result.kind = "str"

(* ---------------- rendering of arbitrary templates ------------------- *)

\* Largest number of parts a template is assembled from.
MaxTplParts == 3

\* A placeholder name the call site never binds.
OtherField == <<"a", "g", "e">>

Lit(text) == [kind |-> "lit", text |-> text]
Field(name) == [kind |-> "field", text |-> name]

\* The template string a sequence of parts stands for.
TemplateText(parts) ==
    Flatten([i \in 1..Len(parts) |->
                IF parts[i].kind = "field"
                THEN <<"{">> \o parts[i].text \o <<"}">>
                ELSE parts[i].text])

\* system_template cut into its parts.
SystemTemplateParts ==
    <<Lit(Between(system_template, 0, NameAt)),
      Field(NameField),
      Lit(Between(system_template, NameAt + Len(NameField) + 2, GoalAt)),
      Field(GoalField),
      Lit(Between(system_template, GoalAt + Len(GoalField) + 2,
                  Len(system_template)))>>

TplParts ==
    {Lit(<<"a">>), Lit(<<" ">>), Field(NameField), Field(GoalField),
     Field(OtherField)}

Templates ==
    UNION {[1..k -> TplParts] : k \in 0..MaxTplParts}
        \cup {SystemTemplateParts}

BindNames == {NameField, GoalField, OtherField}

BindValues == {<<"J">>, <<"{", "g", "o", "a", "l", "}">>, <<"{">>, <<"}">>}

\* Keyword-argument sets: any subset of the names, each with a value.
AllBindings == UNION {[S -> BindValues] : S \in SUBSET BindNames}

NotRendered == [err |-> "pending", text |-> <<>>]

\* Indexes of the placeholders of parts that b leaves unbound.
Unbound(parts, b) ==
    {i \in 1..Len(parts) :
        parts[i].kind = "field" /\ parts[i].text \notin DOMAIN b}

Complete(parts, b) == Unbound(parts, b) = {}

FieldNames(parts) ==
    {parts[i].text : i \in {j \in 1..Len(parts) : parts[j].kind = "field"}}

\* Only the template's own "{name}" replaced, by plain text substitution;
\* every other placeholder stays as written.
render_NameOnly(parts, b) ==
    Format(TemplateText(parts),
           [n \in DOMAIN b |->
               IF n = NameField THEN b[n] ELSE <<"{">> \o n \o <<"}">>])

\* The missing names collected first and the last of them reported.
render_LastMissing(parts, b) ==
    IF Complete(parts, b) THEN Format(TemplateText(parts), b)
    ELSE FormatErr("KeyError",
                   parts[CHOOSE i \in Unbound(parts, b) :
                            \A j \in Unbound(parts, b) : j <= i].text)

\* Keyword arguments the template does not name rejected.
render_Strict(parts, b) ==
    IF DOMAIN b \subseteq FieldNames(parts)
    THEN Format(TemplateText(parts), b)
    ELSE FormatErr("TypeError", <<>>)

\* template.format(**bindings), the rendering step of line 179 for a
\* template and keyword arguments given as inputs.
render(parts, b) == Format(TemplateText(parts), b)

TemplateInit ==
    /\ pc = "call"
    /\ fn = "render"
    /\ template \in Templates
    /\ bindings \in AllBindings
    /\ rendered = NotRendered
    /\ query = <<>>
    /\ show_thinking = FALSE
    /\ response = [ok |-> FALSE, content |-> <<>>]
    /\ messages = <<>>
    /\ result = Pending
    /\ printed = <<>>
    /\ user_input = <<>>
    /\ user_name = <<>>
    /\ goal = <<>>
    /\ calls = <<>>
    /\ relevant = <<>>
    /\ LaterIdle

RenderTemplate ==
    /\ pc = "call"
    /\ fn = "render"
    /\ pc' = "done"
    /\ rendered' = render(template, bindings)
    /\ UNCHANGED <<fn, query, show_thinking, response, messages, result,
                   printed, user_input, user_name, goal, template, bindings,
                   calls, relevant, later>>

TemplateNext == RenderTemplate

TemplateSpec == TemplateInit /\ [][TemplateNext]_vars

RenderDone == pc = "done" /\ fn = "render"

(* ------------------------------- C11 ---------------------------------- *)

IdentChars ==
    {"a", "b", "c", "d", "e", "f", "g", "h", "i", "j", "k", "l", "m", "n",
     "o", "p", "q", "r", "s", "t", "u", "v", "w", "x", "y", "z", "A", "B",
     "C", "D", "E", "F", "G", "H", "I", "J", "K", "L", "M", "N", "O", "P",
     "Q", "R", "S", "T", "U", "V", "W", "X", "Y", "Z", "0", "1", "2", "3",
     "4", "5", "6", "7", "8", "9", "_"}

\* s holds a span "{identifier}".
HasPlaceholder(s) ==
    \E i \in 1..Len(s) : \E j \in (i + 2)..Len(s) :
        /\ s[i] = "{"
        /\ s[j] = "}"
        /\ \A k \in (i + 1)..(j - 1) : s[k] \in IdentChars

HasBrace(s) == \E i \in 1..Len(s) : s[i] \in {"{", "}"}

\* C11 (as claimed): with a complete binding set the rendered output holds
\* no "{identifier}" span, also when a bound value holds brace-delimited
\* text.
C11_NoPlaceholderLeft ==
    (RenderDone /\ Complete(template, bindings))
    => rendered.err = "none" /\ ~HasPlaceholder(rendered.text)

\* C11 (amended): with a complete binding set whose values for the
\* template's placeholders hold no brace, the rendered output holds no
\* "{identifier}" span.
C11_NoPlaceholderLeftPlainValues ==
    (RenderDone /\ Complete(template, bindings)
        /\ \A n \in FieldNames(template) : ~HasBrace(bindings[n]))
    => rendered.err = "none" /\ ~HasPlaceholder(rendered.text)

\* A template with two different placeholders and a literal was rendered
\* with brace-free values.
C11_Witness ==
    /\ RenderDone /\ Complete(template, bindings)
    /\ Cardinality(FieldNames(template)) = 2
    /\ \E i \in 1..Len(template) : template[i].kind = "lit"
    /\ \A n \in FieldNames(template) : ~HasBrace(bindings[n])
    /\ rendered.err = "none" /\ rendered.text # <<>>

(* ------------------------------- C12 ---------------------------------- *)

\* C12: when some placeholder has no binding, rendering fails with the
\* missing-binding error (KeyError) naming the first unbound placeholder in
\* scan order, and yields no text.
C12_FirstMissingNamed ==
    (RenderDone /\ ~Complete(template, bindings))
    => /\ rendered.err = "KeyError"
       /\ rendered.text = template[Min(Unbound(template, bindings))].text

\* A bound placeholder followed by two different unbound ones.
C12_Witness ==
    /\ RenderDone
    /\ Len(template) = 3
    /\ Unbound(template, bindings) = {2, 3}
    /\ template[1].kind = "field"
    /\ template[2].text # template[3].text
    /\ rendered.err = "KeyError"

(* ------------------------------- C13 ---------------------------------- *)

Restrict(b, S) == [n \in (DOMAIN b) \cap S |-> b[n]]

\* The parts written out with the bound values in the placeholders' places.
RefText(parts, b) ==
    Flatten([i \in 1..Len(parts) |->
                IF parts[i].kind = "field" THEN b[parts[i].text]
                ELSE parts[i].text])

\* C13: the outcome of rendering is fixed by the bindings of the template's
\* own placeholders; names the template does not use neither change the
\* text nor make rendering fail.
C13_ExtraBindingsIgnored ==
    RenderDone
    => LET own == Restrict(bindings, FieldNames(template))
       IN  rendered =
             IF Complete(template, own)
             THEN FormatOk(RefText(template, own))
             ELSE FormatErr("KeyError",
                            template[Min(Unbound(template, own))].text)

\* A complete rendering made with a binding the template does not use.
C13_Witness ==
    /\ RenderDone /\ Complete(template, bindings)
    /\ FieldNames(template) # {}
    /\ \E n \in DOMAIN bindings :
          n \notin FieldNames(template) /\ HasBrace(bindings[n])
    /\ rendered.err = "none"

(* ------------------- request calls, step by step ---------------------- *)

\* Number of request calls in flight in one run.
NumCalls == 2

Fitness == "chat_with_fitness_assistant"
Templated == "chat_with_template"
PlanTrip == "plan_trip_with_reasoning"
Solve == "solve_technical_problem"

system_text ==
    <<"Y", "o", "u", " ", "a", "r", "e", " ", "F", "i", "t", "C", "h", "a",
      "t", " ", "G", "P", "T", ",", " ", "a", " ", "f", "r", "i", "e", "n",
      "d", "l", "y", " ", "f", "i", "t", "n", "e", "s", "s", " ", "a", "s",
      "s", "i", "s", "t", "a", "n", "t", ".", "\n", "A", "l", "w", "a",
      "y", "s", " ", "r", "e", "m", "i", "n", "d", " ", "u", "s", "e", "r",
      "s", ":", " ", "I", "'", "m", " ", "n", "o", "t", " ", "a", " ", "m",
      "e", "d", "i", "c", "a", "l", " ", "p", "r", "o", "f", "e", "s", "s",
      "i", "o", "n", "a", "l", ".", "\n", "A", "n", "s", "w", "e", "r",
      " ", "w", "i", "t", "h", " ", "e", "m", "p", "a", "t", "h", "y", " ",
      "a", "n", "d", " ", "d", "i", "s", "c", "l", "a", "i", "m", "e", "r",
      "s", ".">>

SolveSuffix ==
    <<" ", "P", "l", "e", "a", "s", "e", " ", "r", "e", "a", "s", "o", "n",
      " ", "s", "t", "e", "p", " ", "b", "y", " ", "s", "t", "e", "p", ",",
      " ", "a", "n", "d", " ", "p", "u", "t", " ", "y", "o", "u", "r", " ",
      "f", "i", "n", "a", "l", " ", "a", "n", "s", "w", "e", "r", " ", "w",
      "i", "t", "h", "i", "n", " ", "\\", "b", "o", "x", "e", "d", "{",
      "}", ".">>

\* A template whose placeholder the call site does not bind.
UnboundTemplate == <<Lit(<<"a">>), Field(OtherField)>>

\* Every step runs before the client is opened.
Order_OpenFirst(f) ==
    IF f = Templated THEN <<"open", "render", "send", "close", "finish">>
    ELSE IF f = Solve THEN <<"open", "send", "close", "finish">>
    ELSE <<"open", "build", "send", "close", "finish">>

\* The steps of a request function in the order its body runs them:
\* "render" the format call, "build" the messages or system text made before
\* the with statement, "open" and "close" the client context, "send" the
\* chat.completions.create call, "finish" what follows the with statement.
Order(f) ==
    IF f = Templated THEN <<"render", "open", "send", "close", "finish">>
    ELSE IF f = Solve THEN <<"open", "send", "close", "finish">>
    ELSE <<"build", "open", "send", "close", "finish">>

\* solve_technical_problem written without its try/except.
Catches_PlanOnly(f) == f = PlanTrip

\* Every request function wrapped in try/except.
Catches_All(f) == TRUE

\* The functions whose body is a try with `except Exception`.
Catches(f) == f \in {PlanTrip, Solve}

\* format(name=user_name, goal=goal)
KwOf(c) == (NameField :> c.user_name) @@ (GoalField :> c.goal)

\* The user message of the request of call c.
UserText(c) ==
    IF c.fn = PlanTrip THEN c.arg \o QuerySuffix
    ELSE IF c.fn = Solve THEN c.arg \o SolveSuffix
    ELSE c.arg

\* messages=[...] of the create call of c.
MessagesOf(c) ==
    IF c.fn = Solve THEN <<[role |-> "user", content |-> UserText(c)]>>
    ELSE <<[role |-> "system",
            content |-> IF c.fn = Fitness THEN system_text
                        ELSE IF c.fn = Templated THEN c.prompt
                        ELSE TravelSystemText],
           [role |-> "user", content |-> UserText(c)]>>

\* A failed create call sent once more.
SendLog_Retry(c) ==
    IF c.response.ok THEN Append(c.sent, MessagesOf(c))
    ELSE c.sent \o <<MessagesOf(c), MessagesOf(c)>>

\* The requests of c that reached the transport, after its create call.
SendLog(c) == Append(c.sent, MessagesOf(c))

\* A response kept per function and argument and reused by a later call.
ResponseSeen_Cached(cs, i) ==
    IF \E j \in DOMAIN cs :
          j # i /\ cs[j].fn = cs[i].fn /\ cs[j].arg = cs[i].arg
               /\ cs[j].reply.ok
    THEN cs[CHOOSE j \in DOMAIN cs :
              j # i /\ cs[j].fn = cs[i].fn /\ cs[j].arg = cs[i].arg
                   /\ cs[j].reply.ok].reply
    ELSE cs[i].response

\* response = chat_client.chat.completions.create(...): what call i gets.
ResponseSeen(cs, i) == cs[i].response

NoReply == [ok |-> FALSE, content |-> <<"-">>]

\* The arguments and the transport behaviour of one call.
CallInputs ==
    {[fn |-> f, arg |-> a, show_thinking |-> TRUE, tpl |-> tp,
      user_name |-> <<"J">>, goal |-> <<"g">>, response |-> r,
      at |-> 1, client |-> "none", prompt |-> <<>>, sent |-> <<>>,
      reply |-> NoReply, events |-> <<>>, result |-> Pending,
      printed |-> <<>>] :
        f \in {Fitness, Templated, PlanTrip, Solve},
        a \in UserInputs,
        tp \in {SystemTemplateParts, UnboundTemplate},
        r \in {[ok |-> TRUE,
                content |-> OpenTag \o <<"a">> \o CloseTag \o <<" ", "b">>],
               [ok |-> FALSE, content |-> <<>>]}}

\* The template is an input of chat_with_template only.
CallStarts ==
    {c \in CallInputs : c.fn # Templated => c.tpl = SystemTemplateParts}

CallsInit ==
    /\ pc = "calls"
    /\ fn = "session"
    /\ calls \in [1..NumCalls -> CallStarts]
    /\ query = <<>>
    /\ show_thinking = FALSE
    /\ response = [ok |-> FALSE, content |-> <<>>]
    /\ messages = <<>>
    /\ result = Pending
    /\ printed = <<>>
    /\ user_input = <<>>
    /\ user_name = <<>>
    /\ goal = <<>>
    /\ template = <<>>
    /\ bindings = <<>>
    /\ rendered = <<>>
    /\ relevant = <<>>
    /\ LaterIdle

CallFrame ==
    UNCHANGED <<pc, fn, query, show_thinking, response, messages, result,
                printed, user_input, user_name, goal, template, bindings,
                rendered, relevant, later>>

Finished(c) == c.at > Len(Order(c.fn))

\* The step call i is about to run.
StepOf(i) ==
    IF Finished(calls[i]) THEN "none" ELSE Order(calls[i].fn)[calls[i].at]

\* system_prompt = system_template.format(...); a KeyError leaves the
\* function at once.
Render(i) ==
    /\ StepOf(i) = "render"
    /\ LET c == calls[i]
           sp == render(c.tpl, KwOf(c))
       IN  calls' = [calls EXCEPT ![i] =
             IF sp.err = "none"
             THEN [c EXCEPT !.at = c.at + 1, !.prompt = sp.text,
                            !.events = Append(c.events, "render")]
             ELSE [c EXCEPT !.at = Len(Order(c.fn)) + 1,
                            !.result = Raised(sp.err),
                            !.events = c.events \o <<"render", "raise">>]]
    /\ CallFrame

\* The statements before the with statement.
Build(i) ==
    /\ StepOf(i) = "build"
    /\ calls' = [calls EXCEPT ![i] =
                   [@ EXCEPT !.at = @ + 1,
                             !.events = Append(@, "build")]]
    /\ CallFrame

\* with project_client.inference.get_azure_openai_client(...) as chat_client
OpenClient(i) ==
    /\ StepOf(i) = "open"
    /\ calls' = [calls EXCEPT ![i] =
                   [@ EXCEPT !.at = @ + 1, !.client = "open",
                             !.events = Append(@, "open")]]
    /\ CallFrame

\* chat_client.chat.completions.create(...)
Send(i) ==
    /\ StepOf(i) = "send"
    /\ calls' = [calls EXCEPT ![i] =
                   [@ EXCEPT !.at = @ + 1,
                             !.sent = SendLog(calls[i]),
                             !.reply = ResponseSeen(calls, i),
                             !.events = Append(@, "send")]]
    /\ CallFrame

\* Leaving the with statement, normally or by the exception of create.
CloseClient(i) ==
    /\ StepOf(i) = "close"
    /\ calls' = [calls EXCEPT ![i] =
                   [@ EXCEPT !.at = @ + 1, !.client = "closed",
                             !.events = Append(@, "close")]]
    /\ CallFrame

\* What the function hands to its caller after the with statement.
Outcome(c) ==
    IF c.reply.ok
    THEN IF c.fn = PlanTrip
         THEN SplitContent(c.reply.content, c.show_thinking)
         ELSE [kind |-> "str", value |-> c.reply.content]
    ELSE IF Catches(c.fn) THEN NoneResult
    ELSE Raised("TransportError")

Finish(i) ==
    /\ StepOf(i) = "finish"
    /\ LET c == calls[i]
       IN  calls' = [calls EXCEPT ![i] =
             [c EXCEPT
                !.at = c.at + 1,
                !.result = Outcome(c),
                !.printed = IF ~c.reply.ok /\ Catches(c.fn)
                            THEN Append(c.printed, "Error")
                            ELSE c.printed,
                !.events = c.events \o
                    (IF c.reply.ok
                     THEN (IF c.fn = PlanTrip THEN <<"split", "return">>
                           ELSE <<"return">>)
                     ELSE IF Catches(c.fn) THEN <<"print", "return">>
                     ELSE <<"raise">>)]]
    /\ CallFrame

CallsNext ==
    \E i \in 1..NumCalls :
        \/ Render(i)
        \/ Build(i)
        \/ OpenClient(i)
        \/ Send(i)
        \/ CloseClient(i)
        \/ Finish(i)

CallsSpec == CallsInit /\ [][CallsNext]_vars

(* --------------------------- C14 .. C18 ------------------------------- *)

\* The format call of c finds a placeholder without keyword argument.
RenderFails(c) == c.fn = Templated /\ ~Complete(c.tpl, KwOf(c))

\* 1-based position of the first event e in the trace ev, 0 if absent.
Pos(ev, e) ==
    IF \E k \in 1..Len(ev) : ev[k] = e
    THEN Min({k \in 1..Len(ev) : ev[k] = e})
    ELSE 0

Times(ev, e) == Cardinality({k \in 1..Len(ev) : ev[k] = e})

\* Event a happened, and before event b.
Before(ev, a, b) == Pos(ev, a) > 0 /\ Pos(ev, a) < Pos(ev, b)

\* The create call of c has been made.
HasSent(c) == Pos(c.events, "send") > 0

C16_StepOrder ==
    \A i \in DOMAIN calls :
        LET c == calls[i]
            ev == c.events
        IN  /\ (c.fn = Templated /\ Pos(ev, "open") > 0)
                  => Before(ev, "render", "open") /\ ~RenderFails(c)
            /\ (c.fn \in {Fitness, PlanTrip} /\ Pos(ev, "open") > 0)
                  => Before(ev, "build", "open")
            /\ HasSent(c) => Before(ev, "open", "send")
            /\ (Finished(c) /\ RenderFails(c))
                  => /\ c.client = "none"
                     /\ c.sent = <<>>
                     /\ Pos(ev, "open") = 0 /\ Pos(ev, "send") = 0
            /\ Pos(ev, "split") > 0
                  => Before(ev, "send", "split") /\ c.reply.ok
            /\ Pos(ev, "return") > 0
                  => Pos(ev, "return") = Len(ev)
                        /\ (c.fn = PlanTrip /\ c.reply.ok
                               => Before(ev, "split", "return"))

\* One chat_with_template call stopped at its render failure while another
\* went through render, open, send and close to its return.
C16_Witness ==
    \E i, j \in DOMAIN calls :
        /\ Finished(calls[i]) /\ RenderFails(calls[i])
        /\ calls[i].events = <<"render", "raise">>
        /\ calls[j].fn = Templated /\ Finished(calls[j])
        /\ calls[j].events = <<"render", "open", "send", "close", "return">>

\* C17 (as claimed): no request with an empty user text reaches the
\* transport; a call whose user input is empty sends a non-empty user
\* message or fails before sending.
C17_UserTextNonEmpty ==
    \A i \in DOMAIN calls :
        \A k \in 1..Len(calls[i].sent) :
            LET msgs == calls[i].sent[k]
            IN  msgs[Len(msgs)].role = "user"
                   /\ msgs[Len(msgs)].content # <<>>

\* What call c gives its caller, computed from its own arguments and the
\* transport's response to it, whatever other calls do.
ResultAlone(c) ==
    IF RenderFails(c) THEN Raised("KeyError")
    ELSE IF ~c.response.ok
         THEN (IF c.fn \in {PlanTrip, Solve} THEN NoneResult
               ELSE Raised("TransportError"))
    ELSE IF c.fn = PlanTrip
         THEN SplitContent(c.response.content, c.show_thinking)
    ELSE [kind |-> "str", value |-> c.response.content]

\* C18: calls are independent: in every interleaving a finished call has
\* the result it has when run alone, fixed by its own arguments and the
\* transport's response to it, and sent the request of its own arguments.
C18_CallsIndependent ==
    \A i \in DOMAIN calls :
        LET c == calls[i]
        IN  /\ Finished(c) => c.result = ResultAlone(c)
            /\ HasSent(c) =>
                  /\ c.reply = c.response
                  /\ c.sent[1][Len(c.sent[1])].content = UserText(c)

\* Two finished calls of one function with one argument got different
\* responses, the second sending after the first had its answer, and
\* ended differently.
C18_Witness ==
    /\ DOMAIN calls = 1..NumCalls
    /\ Finished(calls[1]) /\ Finished(calls[2])
    /\ calls[1].fn = calls[2].fn /\ calls[1].arg = calls[2].arg
    /\ calls[1].fn = PlanTrip
    /\ calls[1].response.ok /\ ~calls[2].response.ok
    /\ calls[1].result.kind = "dict" /\ calls[2].result = NoneResult

(* ----------------------------- retrieve_tips -------------------------- *)

\* Largest number of pieces a query is assembled from.
MaxQueryPieces == 3

health_tips ==
    <<
      [id |-> "tip1",
       content |->
         <<"D", "o", " ", "a", " ", "1", "0", "-", "m", "i", "n", "u",
           "t", "e", " ", "H", "I", "I", "T", " ", "w", "o", "r", "k",
           "o", "u", "t", " ", "t", "o", " ", "b", "o", "o", "s", "t",
           " ", "y", "o", "u", "r", " ", "m", "e", "t", "a", "b", "o",
           "l", "i", "s", "m", ".">>,
       source |->
         <<"F", "i", "t", "n", "e", "s", "s", " ", "G", "u", "r", "u">>],
      [id |-> "tip2",
       content |->
         <<"T", "a", "k", "e", " ", "a", " ", "b", "r", "i", "s", "k",
           " ", "1", "5", "-", "m", "i", "n", "u", "t", "e", " ", "w",
           "a", "l", "k", " ", "t", "o", " ", "c", "l", "e", "a", "r",
           " ", "y", "o", "u", "r", " ", "m", "i", "n", "d", " ", "a",
           "n", "d", " ", "i", "m", "p", "r", "o", "v", "e", " ", "c",
           "i", "r", "c", "u", "l", "a", "t", "i", "o", "n", ".">>,
       source |->
         <<"H", "e", "a", "l", "t", "h", " ", "C", "o", "a", "c", "h">>],
      [id |-> "tip3",
       content |->
         <<"S", "t", "r", "e", "t", "c", "h", " ", "f", "o", "r", " ",
           "5", " ", "m", "i", "n", "u", "t", "e", "s", " ", "e", "v",
           "e", "r", "y", " ", "h", "o", "u", "r", " ", "i", "f", " ",
           "y", "o", "u", "'", "r", "e", " ", "s", "i", "t", "t", "i",
           "n", "g", " ", "a", "t", " ", "a", " ", "d", "e", "s", "k",
           ".">>,
       source |->
         <<"W", "e", "l", "l", "n", "e", "s", "s", " ", "E", "x", "p",
           "e", "r", "t">>],
      [id |-> "tip4",
       content |->
         <<"I", "n", "c", "o", "r", "p", "o", "r", "a", "t", "e", " ",
           "s", "t", "r", "e", "n", "g", "t", "h", " ", "t", "r", "a",
           "i", "n", "i", "n", "g", " ", "t", "w", "i", "c", "e", " ",
           "a", " ", "w", "e", "e", "k", " ", "f", "o", "r", " ", "o",
           "v", "e", "r", "a", "l", "l", " ", "f", "i", "t", "n", "e",
           "s", "s", ".">>,
       source |->
         <<"P", "e", "r", "s", "o", "n", "a", "l", " ", "T", "r", "a",
           "i", "n", "e", "r">>],
      [id |-> "tip5",
       content |->
         <<"D", "r", "i", "n", "k", " ", "w", "a", "t", "e", "r", " ",
           "r", "e", "g", "u", "l", "a", "r", "l", "y", " ", "t", "o",
           " ", "s", "t", "a", "y", " ", "h", "y", "d", "r", "a", "t",
           "e", "d", " ", "d", "u", "r", "i", "n", "g", " ", "w", "o",
           "r", "k", "o", "u", "t", "s", ".">>,
       source |->
         <<"N", "u", "t", "r", "i", "t", "i", "o", "n", "i", "s", "t">>]
    >>

Uppers ==
    <<"A", "B", "C", "D", "E", "F", "G", "H", "I", "J", "K", "L", "M", "N",
      "O", "P", "Q", "R", "S", "T", "U", "V", "W", "X", "Y", "Z">>

Lowers ==
    <<"a", "b", "c", "d", "e", "f", "g", "h", "i", "j", "k", "l", "m", "n",
      "o", "p", "q", "r", "s", "t", "u", "v", "w", "x", "y", "z">>

\* str.lower() on one character.
LowerChar(ch) ==
    IF \E k \in 1..Len(Uppers) : Uppers[k] = ch
    THEN Lowers[CHOOSE k \in 1..Len(Uppers) : Uppers[k] = ch]
    ELSE ch

\* str.lower()
Lower(s) == [k \in 1..Len(s) |-> LowerChar(s[k])]

\* str.split() without arguments, scanning from position i (1-based) with
\* the word cur under construction: runs of whitespace separate the words
\* and no word is empty.
RECURSIVE SplitFrom(_, _, _)
SplitFrom(s, i, cur) ==
    IF i > Len(s) THEN (IF cur = <<>> THEN <<>> ELSE <<cur>>)
    ELSE IF s[i] \in Whitespace
         THEN (IF cur = <<>> THEN <<>> ELSE <<cur>>) \o SplitFrom(s, i + 1, <<>>)
    ELSE SplitFrom(s, i + 1, Append(cur, s[i]))

Split(s) == SplitFrom(s, 1, <<>>)

\* The query iterated character by character instead of word by word.
QueryWords_Chars(q) == [k \in 1..Len(q) |-> <<Lower(q)[k]>>]

\* query_lower.split()
QueryWords(q) == Split(Lower(q))

\* any(word in tip["content"].lower() for word in query_lower.split())
TipMatches(tip, q) ==
    \E k \in 1..Len(QueryWords(q)) : In(QueryWords(q)[k], Lower(tip.content))

\* f"Source: {tip['source']} => {tip['content']}"
TipLine(tip) ==
    <<"S", "o", "u", "r", "c", "e", ":", " ">> \o tip.source
        \o <<" ", "=", ">", " ">> \o tip.content

\* The lines appended by the loop over health_tips, in its order.
MatchingLines(q) ==
    LET keep == [k \in 1..Len(health_tips) |->
                    IF TipMatches(health_tips[k], q)
                    THEN <<TipLine(health_tips[k])>> ELSE <<>>]
    IN  Flatten(keep)

AllLines == [k \in 1..Len(health_tips) |-> TipLine(health_tips[k])]

\* The list returned as it is, also when it is empty.
OrAll_Never(rel) == rel

\* if not relevant: relevant = [... for tip in health_tips]
OrAll(rel) == IF rel = <<>> THEN AllLines ELSE rel

\* "\n".join(lines)
Join(lines) ==
    Flatten([k \in 1..Len(lines) |->
                IF k = 1 THEN lines[k] ELSE <<"\n">> \o lines[k]])

QueryPieces ==
    {<<"H", "I", "I", "T">>, <<"W", "a", "l", "k">>, <<"m", "i", "n">>,
     <<"s", "l", "e", "e", "p">>, <<" ">>, <<"\t">>}

RetrieveQueries ==
    {Flatten(ps) : ps \in UNION {[1..k -> QueryPieces] : k \in 0..MaxQueryPieces}}

RetrieveInit ==
    /\ pc = "call"
    /\ fn = "retrieve_tips"
    /\ query \in RetrieveQueries
    /\ relevant = <<>>
    /\ result = Pending
    /\ show_thinking = FALSE
    /\ response = [ok |-> FALSE, content |-> <<>>]
    /\ messages = <<>>
    /\ printed = <<>>
    /\ user_input = <<>>
    /\ user_name = <<>>
    /\ goal = <<>>
    /\ template = <<>>
    /\ bindings = <<>>
    /\ rendered = <<>>
    /\ calls = <<>>
    /\ LaterIdle

RetrieveTips ==
    /\ pc = "call"
    /\ fn = "retrieve_tips"
    /\ pc' = "done"
    /\ relevant' = OrAll(MatchingLines(query))
    /\ result' = [kind |-> "str", value |-> Join(relevant')]
    /\ UNCHANGED <<fn, query, show_thinking, response, messages, printed,
                   user_input, user_name, goal, template, bindings, rendered,
                   calls, later>>

RetrieveNext == RetrieveTips

RetrieveSpec == RetrieveInit /\ [][RetrieveNext]_vars

RetrieveDone == pc = "done" /\ fn = "retrieve_tips"

(* --------------------------- C19 and C20 ------------------------------ *)

Fold(s) == [k \in 1..Len(s) |-> LowerChar(s[k])]

\* The whitespace-separated words of q: its maximal runs without whitespace.
WordsOf(q) ==
    {Between(q, i, j) : <<i, j>> \in
        {p \in (0..Len(q)) \X (0..Len(q)) :
            /\ p[1] < p[2]
            /\ \A k \in (p[1] + 1)..p[2] : q[k] \notin Whitespace
            /\ (p[1] = 0 \/ q[p[1]] \in Whitespace)
            /\ (p[2] = Len(q) \/ q[p[2] + 1] \in Whitespace)}}

\* Tip k contains, without regard to case, a word of the query.
ContainsWord(k, q) ==
    LET body == Fold(health_tips[k].content)
    IN  \E w \in WordsOf(q) :
            LET word == Fold(w)
            IN  \E i \in 0..Len(body) : Occurs(body, word, i)

Matching(q) == {k \in 1..Len(health_tips) : ContainsWord(k, q)}

\* Tip k is in the returned text: its line stands there from the start of
\* the text or a newline to the end of the text or a newline.
Shown(k) ==
    LET text == result.value
        line == <<"S", "o", "u", "r", "c", "e", ":", " ">>
                    \o health_tips[k].source
                    \o <<" ", "=", ">", " ">> \o health_tips[k].content
    IN  \E i \in 0..Len(text) :
            /\ i = 0 \/ text[i] = "\n"
            /\ i + Len(line) <= Len(text)
            /\ i + Len(line) = Len(text) \/ text[i + Len(line) + 1] = "\n"
            /\ Occurs(text, line, i)

C23_StructuredIffFlagAndTags ==
    Returned =>
        /\ result.kind = "dict"
              <=> /\ show_thinking
                  /\ \E i \in 0..Len(response.content) :
                        Occurs(response.content, OpenTag, i)
                  /\ \E i \in 0..Len(response.content) :
                        Occurs(response.content, CloseTag, i)
        /\ result.kind = "str" => result.value = response.content
        /\ result.kind = "dict" => result.value.full_response = response.content

\* A response with both tags was returned as it came, tags included,
\* because show_thinking was false.
C23_Witness ==
    /\ Returned
    /\ ~show_thinking
    /\ Count(response.content, OpenTag) = 1
    /\ Count(response.content, CloseTag) = 1
    /\ FirstAt(response.content, OpenTag, 0) < FirstAt(response.content, CloseTag, 0)
    /\ result.kind = "str"
    /\ result.value = response.content

(* -------------------- one notebook session, call by call -------------- *)

\* Largest number of calls made in one session.
MaxRounds == 2

Embed == "embed_with_template"

TEMPLATE_SYSTEM ==
    <<"Y", "o", "u", " ", "a", "r", "e", " ", "H", "e", "a", "l", "t", "h",
      "F", "i", "t", "G", "P", "T", ",", " ", "a", " ", "f", "i", "t", "n",
      "e", "s", "s", " ", "g", "u", "i", "d", "a", "n", "c", "e", " ", "m",
      "o", "d", "e", "l", ".", "\n", "P", "l", "e", "a", "s", "e", " ",
      "f", "o", "c", "u", "s", " ", "o", "n", " ", "h", "e", "a", "l", "t",
      "h", "y", " ", "a", "d", "v", "i", "c", "e", " ", "a", "n", "d", " ",
      "d", "i", "s", "c", "l", "a", "i", "m", " ", "y", "o", "u", "'", "r",
      "e", " ", "n", "o", "t", " ", "a", " ", "d", "o", "c", "t", "o", "r",
      ".", "\n", "\n", "U", "s", "e", "r", " ", "m", "e", "s", "s", "a",
      "g", "e", ":">>

\* The cell of the embeddings notebook that embeds text_phrases.
TextCell == "text_embeddings_cell"

\* The phrases the cell embeds (each ends with an emoji, left out here).
text_phrases ==
    <<"An apple a day keeps the doctor away",
      "Quick 15-minute HIIT workout routine",
      "Mindful breathing exercises">>

SessionFns == {Fitness, PlanTrip, Solve, Embed, TextCell}

\* The notebook, and so the kernel and its global project_client, a
\* function lives in.
NotebookOf(f) ==
    IF f \in {PlanTrip, Solve} THEN "deepseek"
    ELSE IF f = Fitness THEN "chat"
    ELSE "embeddings"

\* The steps of a call in the order the body runs them: "enter" and "exit"
\* the with statement, "create" the request, "extract" the statements that
\* read the response and make the return value.
SessionOrder(f) ==
    IF f \in {Fitness, TextCell}
    THEN <<"enter", "create", "extract", "exit">>
    ELSE <<"enter", "create", "exit", "extract">>

\* The step after step s of f, "returned" after the last.
StepAfter(f, s) ==
    LET o == SessionOrder(f)
        k == CHOOSE i \in 1..Len(o) : o[i] = s
    IN  IF k = Len(o) THEN "returned" ELSE o[k + 1]

\* The client closed by an explicit call on the normal path only.
AfterRaise_NoExit(cl) == "handle"

\* Where an exception goes first: through the __exit__ of the with
\* statement when a client is open, to the function's handler otherwise.
AfterRaise(cl) == IF cl # <<>> THEN "exit" ELSE "handle"

\* The request the create call of the current function sends.
SessionRequest(f, text) ==
    IF f = Embed
    THEN <<[role |-> "input", content |-> TEMPLATE_SYSTEM \o <<" ">> \o text]>>
    ELSE IF f = TextCell
    THEN <<[role |-> "input", content |-> text_phrases]>>
    ELSE MessagesOf([fn |-> f, arg |-> text, prompt |-> <<>>])

\* A cell, which returns nothing, has run to its end.
CellEnded == [kind |-> "cell", value |-> <<>>]

\* What the transport does with the request of one call.
SessionResponses ==
    {[ok |-> TRUE,
      content |-> OpenTag \o <<"a">> \o CloseTag \o <<" ", "b">>],
     [ok |-> TRUE, content |-> <<"a">>],
     [ok |-> TRUE, content |-> <<>>],
     [ok |-> FALSE, content |-> <<>>]}

\* Steps other than create that can raise: obtaining the client, and
\* indexing the first choice (or first datum) of a response without any.
SessionFaults == {"none", "client", "choices"}

\* The session starts after the notebook's setup cell, which either bound
\* project_client or printed its error and left the name unbound.
SessionInit ==
    /\ pc = "idle"
    /\ fn = "none"
    /\ project_client \in {"undefined", "created"}
    /\ clients = <<>>
    /\ fault = "none"
    /\ rounds = 0
    /\ report = <<>>
    /\ file = "absent"
    /\ query = <<>>
    /\ show_thinking = FALSE
    /\ response = [ok |-> FALSE, content |-> <<>>]
    /\ messages = <<>>
    /\ result = Pending
    /\ printed = <<>>
    /\ user_input = <<>>
    /\ user_name = <<>>
    /\ goal = <<>>
    /\ template = <<>>
    /\ bindings = <<>>
    /\ rendered = <<>>
    /\ calls = <<>>
    /\ relevant = <<>>

SessionFrame ==
    UNCHANGED <<user_input, user_name, goal, template, bindings, rendered,
                calls, relevant, file, project_client>>

\* A cell calls f(text) or plan_trip_with_reasoning(text, st); the
\* statements before the with statement build the messages.
Begin(f, text, st, r, ft) ==
    /\ pc = "idle"
    /\ rounds < MaxRounds
    /\ fn # "none" => NotebookOf(f) = NotebookOf(fn)
    /\ st => f = PlanTrip
    /\ f = TextCell => text = <<>>
    /\ ft = "choices" => r.ok
    /\ pc' = "enter"
    /\ fn' = f
    /\ query' = text
    /\ show_thinking' = st
    /\ response' = r
    /\ fault' = ft
    /\ rounds' = rounds + 1
    /\ messages' = <<>>
    /\ result' = Pending
    /\ printed' = <<>>
    /\ report' = <<>>
    /\ UNCHANGED clients
    /\ SessionFrame

\* with project_client.inference.get_azure_openai_client(...) as client
EnterClient ==
    /\ pc = "enter"
    /\ IF project_client = "undefined"
       THEN /\ result' = Raised("NameError")
            /\ pc' = AfterRaise(clients)
            /\ UNCHANGED clients
       ELSE IF fault = "client"
       THEN /\ result' = Raised("ClientError")
            /\ pc' = AfterRaise(clients)
            /\ UNCHANGED clients
       ELSE /\ clients' = Append(clients, fn)
            /\ pc' = StepAfter(fn, "enter")
            /\ UNCHANGED result
    /\ UNCHANGED <<fn, query, show_thinking, response, fault, rounds,
                   messages, printed, report>>
    /\ SessionFrame

\* client.chat.completions.create(...) or client.embeddings.create(...)
Create ==
    /\ pc = "create"
    /\ messages' = Append(messages, SessionRequest(fn, query))
    /\ IF response.ok
       THEN /\ pc' = StepAfter(fn, "create")
            /\ UNCHANGED result
       ELSE /\ result' = Raised("TransportError")
            /\ pc' = AfterRaise(clients)
    /\ UNCHANGED <<fn, query, show_thinking, response, fault, rounds,
                   clients, printed, report>>
    /\ SessionFrame

\* response.choices[0].message.content (rsp.data[0].embedding) and the
\* statements making the return value; in the text embeddings cell the
\* loop printing each vector.
Extract ==
    /\ pc = "extract"
    /\ IF fault = "choices"
       THEN /\ result' = Raised("IndexError")
            /\ pc' = AfterRaise(clients)
       ELSE /\ result' =
                 IF fn = PlanTrip
                 THEN SplitContent(response.content, show_thinking)
                 ELSE IF fn = Embed
                 THEN [kind |-> "embedding", value |-> response.content]
                 ELSE IF fn = TextCell
                 THEN CellEnded
                 ELSE [kind |-> "str", value |-> response.content]
            /\ pc' = StepAfter(fn, "extract")
    /\ printed' = IF fn = TextCell /\ fault # "choices"
                  THEN Append(printed, "Sentence")
                  ELSE printed
    /\ UNCHANGED <<fn, query, show_thinking, response, fault, rounds,
                   clients, messages, report>>
    /\ SessionFrame

\* The __exit__ of the with statement, left normally or by an exception.
ExitClient ==
    /\ pc = "exit"
    /\ clients' = SubSeq(clients, 1, Len(clients) - 1)
    /\ pc' = IF result.kind = "raise" THEN "handle"
             ELSE StepAfter(fn, "exit")
    /\ UNCHANGED <<fn, query, show_thinking, response, fault, rounds,
                   messages, result, printed, report>>
    /\ SessionFrame

\* except Exception as e: print(...); return None -- where the function
\* has a handler, and the print alone in the text embeddings cell; the
\* exception leaves the function otherwise.
Handle ==
    /\ pc = "handle"
    /\ pc' = "returned"
    /\ IF Catches(fn)
       THEN /\ result' = NoneResult
            /\ printed' = Append(printed, "Error")
       ELSE IF fn = TextCell
       THEN /\ result' = CellEnded
            /\ printed' = Append(printed, "Error")
       ELSE UNCHANGED <<result, printed>>
    /\ UNCHANGED <<fn, query, show_thinking, response, fault, rounds,
                   clients, messages, report>>
    /\ SessionFrame

\* if isinstance(result, dict) ... elif result ... else ... of the cell
\* that called plan_trip_with_reasoning.
TripReport(res) ==
    IF res.kind = "dict" THEN <<"Model's thinking process", "Final recommendation">>
    ELSE IF res.kind = "str" /\ res.value # <<>> THEN <<"Travel Plan">>
    ELSE <<"Failed to get travel recommendations">>

\* The rest of the calling cell.
CallerCell ==
    /\ pc = "returned"
    /\ pc' = "idle"
    /\ report' = IF fn = PlanTrip THEN TripReport(result) ELSE <<>>
    /\ UNCHANGED <<fn, query, show_thinking, response, fault, rounds,
                   clients, messages, result, printed>>
    /\ SessionFrame

SessionNext ==
    \/ \E f \in SessionFns, text \in UserInputs, st \in BOOLEAN,
          r \in SessionResponses, ft \in SessionFaults :
            Begin(f, text, st, r, ft)
    \/ EnterClient
    \/ Create
    \/ Extract
    \/ ExitClient
    \/ Handle
    \/ CallerCell

SessionSpec == SessionInit /\ [][SessionNext]_vars

(* ------------------------- C24, C26 and C27 --------------------------- *)

\* The current call has handed control back to the calling cell.
CallOver == rounds > 0 /\ pc \in {"returned", "idle"}

\* Some step of the current call raises: building the request needs the
\* unbound project_client or the client cannot be obtained, the transport
\* fails, or the response has no first choice.
SomethingRaises ==
    \/ project_client = "undefined"
    \/ fault \in {"client", "choices"}
    \/ ~response.ok

C26_FailedIffNone ==
    (rounds > 0 /\ pc = "idle" /\ fn = PlanTrip) =>
        (report = <<"Failed to get travel recommendations">>
            <=> result = NoneResult)

\* C27: a client opened for a request is closed before the function
\* returns or raises, on success and on failure alike; never are two
\* clients open at once, and none stays open between calls.
C27_ClientsClosed ==
    /\ Len(clients) <= 1
    /\ pc \in {"idle", "enter", "handle", "returned"} => clients = <<>>
    /\ clients # <<>> => clients = <<fn>>

\* The second call of a session has ended by a transport failure, after a
\* first call that also opened a client, and no client is open.
C27_Witness ==
    /\ rounds = MaxRounds
    /\ pc = "returned"
    /\ fn \in {Fitness, PlanTrip, Embed}
    /\ project_client = "created"
    /\ messages # <<>>
    /\ ~response.ok
    /\ clients = <<>>

(* ------------------------ generate_health_image ----------------------- *)

GenerateImage == "generate_health_image"

\* The statements of the try block that can raise, in their order.
ImageSteps ==
    <<"client", "generate", "url", "download", "open", "write",
      "image_open", "display", "remove">>

ImageFaults == {"none"} \cup {ImageSteps[k] : k \in 1..Len(ImageSteps)}

ImagePrompts == {<<>>, <<"a">>}

\* temp_image.png once the except clause has printed the error: nothing
\* removes it.
FileAfterRaise(f) == f

\* temp_image.png after statement s has run to its end: open(..., "wb")
\* creates it, os.remove deletes it.
FileAfter(s, f) ==
    IF s = "open" THEN "present"
    ELSE IF s = "remove" THEN "absent"
    ELSE f

\* The statement after s, "idle" after the last: the function is over.
ImageStepAfter(s) ==
    LET k == CHOOSE i \in 1..Len(ImageSteps) : ImageSteps[i] = s
    IN  IF k = Len(ImageSteps) THEN "idle" ELSE ImageSteps[k + 1]

ImageInit ==
    /\ pc = "idle"
    /\ fn = "none"
    /\ project_client = "unused"
    /\ clients = <<>>
    /\ fault = "none"
    /\ rounds = 0
    /\ report = <<>>
    /\ file = "absent"
    /\ query = <<>>
    /\ show_thinking = FALSE
    /\ response = [ok |-> FALSE, content |-> <<>>]
    /\ messages = <<>>
    /\ result = Pending
    /\ printed = <<>>
    /\ user_input = <<>>
    /\ user_name = <<>>
    /\ goal = <<>>
    /\ template = <<>>
    /\ bindings = <<>>
    /\ rendered = <<>>
    /\ calls = <<>>
    /\ relevant = <<>>

ImageFrame ==
    UNCHANGED <<show_thinking, response, messages, user_input, user_name,
                goal, template, bindings, rendered, calls, relevant,
                project_client, clients, report>>

\* A cell calls generate_health_image(prompt); ft is the statement that
\* will raise in this call, if any.
GenerateHealthImage(prompt, ft) ==
    /\ pc = "idle"
    /\ rounds < MaxRounds
    /\ pc' = ImageSteps[1]
    /\ fn' = GenerateImage
    /\ query' = prompt
    /\ fault' = ft
    /\ rounds' = rounds + 1
    /\ result' = Pending
    /\ printed' = <<>>
    /\ UNCHANGED file
    /\ ImageFrame

\* Statement s of the try block: it raises, and the except clause prints
\* the error and the function ends, or it runs to its end.
RunStep(s) ==
    /\ pc = s
    /\ fn = GenerateImage
    /\ IF fault = s
       THEN /\ pc' = "idle"
            /\ printed' = Append(printed, "Error generating image")
            /\ file' = FileAfterRaise(file)
       ELSE /\ pc' = ImageStepAfter(s)
            /\ printed' = printed
            /\ file' = FileAfter(s, file)
    /\ result' = IF pc' = "idle" THEN NoneResult ELSE result
    /\ UNCHANGED <<fn, query, fault, rounds>>
    /\ ImageFrame

\* client = AzureOpenAI(...)
ImageClient == RunStep("client")

\* result = client.images.generate(...)
ImageGenerate == RunStep("generate")

\* image_url = result.data[0].url
ImageUrl == RunStep("url")

\* image_data = requests.get(image_url).content
ImageDownload == RunStep("download")

\* with open("temp_image.png", "wb") as f:
ImageOpenFile == RunStep("open")

\* f.write(image_data), then the file is closed
ImageWrite == RunStep("write")

\* img = Image.open("temp_image.png")
ImageOpen == RunStep("image_open")

\* display(img)
ImageDisplay == RunStep("display")

\* os.remove("temp_image.png")
ImageRemove == RunStep("remove")

ImageNext ==
    \/ \E prompt \in ImagePrompts, ft \in ImageFaults :
          GenerateHealthImage(prompt, ft)
    \/ ImageClient
    \/ ImageGenerate
    \/ ImageUrl
    \/ ImageDownload
    \/ ImageOpenFile
    \/ ImageWrite
    \/ ImageOpen
    \/ ImageDisplay
    \/ ImageRemove

ImageSpec == ImageInit /\ [][ImageNext]_vars

(* ------------------------------- C25 ---------------------------------- *)

\* C25 (as claimed): after every call of generate_health_image has
\* returned, on the success path and on every error path, the file
\* temp_image.png does not exist.
C25_TempFileGone ==
    (pc = "idle" /\ rounds > 0 /\ fn = GenerateImage) => file = "absent"

(* ------------------ setup cell of the embeddings notebook ------------- *)

\* The client created before the credential has been tested.
SetupOrder_ClientFirst == <<"credential", "project", "token">>

\* The statements of the setup cell's try block, in their order:
\* InteractiveBrowserCredential(...), credential.get_token(...),
\* project_client = AIProjectClient(...).
SetupOrder == <<"credential", "token", "project">>

SetupFaults == {"none", "credential", "token", "project"}

\* What the cell prints once a statement has run to its end.
SetupPrints(s) ==
    IF s = "credential" THEN "Testing credential..."
    ELSE IF s = "token" THEN "Successfully initialized Azure credentials"
    ELSE "Successfully created AIProjectClient"

SetupStepAfter(s) ==
    LET k == CHOOSE i \in 1..Len(SetupOrder) : SetupOrder[i] = s
    IN  IF k = Len(SetupOrder) THEN "idle" ELSE SetupOrder[k + 1]

\* A fresh kernel about to run the setup cell; fault is the statement of
\* the cell that will raise, if any.
SetupInit ==
    /\ pc = SetupOrder[1]
    /\ fn = "setup"
    /\ project_client = "undefined"
    /\ clients = <<>>
    /\ fault \in SetupFaults
    /\ rounds = 0
    /\ report = <<>>
    /\ file = "absent"
    /\ query = <<>>
    /\ show_thinking = FALSE
    /\ response = [ok |-> FALSE, content |-> <<>>]
    /\ messages = <<>>
    /\ result = Pending
    /\ printed = <<>>
    /\ user_input = <<>>
    /\ user_name = <<>>
    /\ goal = <<>>
    /\ template = <<>>
    /\ bindings = <<>>
    /\ rendered = <<>>
    /\ calls = <<>>
    /\ relevant = <<>>

\* Statement s of the setup cell: it raises, and the except clause prints
\* the error and the cell ends, or it runs to its end.
SetupStep(s) ==
    /\ pc = s
    /\ fn = "setup"
    /\ IF fault = s
       THEN /\ pc' = "idle"
            /\ printed' = Append(printed, "Error creating AIProjectClient")
            /\ UNCHANGED project_client
       ELSE /\ pc' = SetupStepAfter(s)
            /\ printed' = Append(printed, SetupPrints(s))
            /\ project_client' =
                 IF s = "project" THEN "created" ELSE project_client
    /\ UNCHANGED <<fn, query, show_thinking, response, messages, result,
                   user_input, user_name, goal, template, bindings, rendered,
                   calls, relevant, clients, fault, rounds, report, file>>

\* credential = InteractiveBrowserCredential(tenant_id=tenant_id)
MakeCredential == SetupStep("credential")

\* test_token = credential.get_token(...)
GetToken == SetupStep("token")

\* project_client = AIProjectClient(endpoint=..., credential=credential)
MakeProjectClient == SetupStep("project")

SetupNext ==
    \/ MakeCredential
    \/ GetToken
    \/ MakeProjectClient
    \/ SessionNext

SetupSpec == SetupInit /\ [][SetupNext]_vars

(* ------------------------------- C28 ---------------------------------- *)

Printed(line) == \E k \in 1..Len(printed) : printed[k] = line

\* The setup cell has ended and no later cell has run yet.
SetupOver == fn = "setup" /\ pc = "idle"

\* C28: the project client is created only after the credential has been
\* constructed and the test token obtained; when either fails, no project
\* client is created and the error is printed, not raised; every later use
\* of the project client then ends in an error and sends no request.
C28_ClientAfterToken ==
    /\ (fn = "setup" /\ project_client = "created")
          => /\ Printed("Testing credential...")
             /\ Printed("Successfully initialized Azure credentials")
    /\ (SetupOver /\ fault \in {"credential", "token"})
          => /\ project_client = "undefined"
             /\ Printed("Error creating AIProjectClient")
    /\ (fn \in {Embed, TextCell} /\ project_client = "undefined")
          => /\ messages = <<>> /\ clients = <<>>
             /\ CallOver =>
                   IF fn = Embed THEN result = Raised("NameError")
                   ELSE printed = <<"Error">>

\* After a setup that left project_client unbound, embed_with_template has
\* raised without sending, in the second cell run after the setup.
C28_Witness ==
    /\ rounds = MaxRounds
    /\ project_client = "undefined"
    /\ fn = Embed /\ pc = "returned"
    /\ result = Raised("NameError")
    /\ messages = <<>>

====
